---- MODULE Spec2Model ----
(***************************************************************************)
(* ProperImage, properimage/utils.py: the cross-frame source matcher       *)
(* (_matching), the Ofek zero-point solver (transparency) and chunk_it.    *)
(*                                                                         *)
(* Units.  Pixel coordinates and pixel radii are in tenths of a pixel,     *)
(* sky coordinates (RA, Dec) and angular radii in arcseconds, fluxes are   *)
(* powers of ten and magnitudes are in tenths of a magnitude, so that      *)
(* every comparison the code makes on floats is made here on integers.     *)
(* Sky positions lie on the equator (Dec = 0), where the great-circle      *)
(* separation that crossmatch_angular compares is exactly |RA1 - RA2|.     *)
(*                                                                         *)
(* A catalog is a column-keyed table: rows, and the set of optional        *)
(* columns it carries (flux, sourceid, detected, masterindex).  A column   *)
(* that is absent holds the default value in every row.                    *)
(***************************************************************************)
EXTENDS Integers, Sequences, FiniteSets, TLC

VARIABLES cats, pc, args, entry, ret, nn, sys, ncalls, loc

vars == <<cats, pc, args, entry, ret, nn, sys, ncalls, loc>>

(* ---------------------------- bounds ---------------------------------- *)

\* Sources per catalog of a direct _matching call.
MaxSrc == 2

\* Calls made in one behaviour.
MaxCalls == 2

(* ------------------------ program constants --------------------------- *)

\* utils.py:119, IDs = np.zeros_like(ind_) - 13133
Unmatched == -13133

\* The value of masteridskey when no key is passed (utils.py:75).
None == "None"

\* dist of a source with no neighbour within max_distance (np.inf).
Inf == -1

(* ----------------------------- catalogs -------------------------------- *)

Abs(n) == IF n < 0 THEN 0 - n ELSE n

Range(s) == {s[i] : i \in 1..Len(s)}

IsInjective(s) == \A i, j \in 1..Len(s) : s[i] = s[j] => i = j

SeqsUpTo(S, n) == UNION {[1..k -> S] : k \in 0..n}

\* A row with the optional columns at their defaults.
Row(x, y, ra, flux, sourceid) ==
    [x |-> x, y |-> y, RA |-> ra, Dec |-> 0, flux |-> flux,
     sourceid |-> sourceid, detected |-> FALSE, masterindex |-> 0]

Catalog(rows, cols) == [rows |-> rows, cols |-> cols]

\* cat[name] = values : the column is added when absent, overwritten when
\* present; rows keep their order.
SetColumn(cat, name, values) ==
    [rows |-> [i \in 1..Len(cat.rows) |->
                  [cat.rows[i] EXCEPT ![name] = values[i]]],
     cols |-> cat.cols \cup {name}]

Column(cat, name) == [i \in 1..Len(cat.rows) |-> cat.rows[i][name]]

\* np.arange(n)
Arange(n) == [i \in 1..n |-> i - 1]

(* ------------------- astroML crossmatch (cKDTree.query) ---------------- *)

\* Dist2 with the y column never read (both pixel columns filled from x).
Dist2XOnly(angular, a, b) == (a[1] - b[1]) * (a[1] - b[1])

\* Squared distance of two points: Euclidean for (x, y) pixel positions,
\* great-circle separation for (RA, Dec) positions on the equator.
Dist2(angular, a, b) ==
    IF angular
    THEN (a[1] - b[1]) * (a[1] - b[1])
    ELSE (a[1] - b[1]) * (a[1] - b[1]) + (a[2] - b[2]) * (a[2] - b[2])

\* WithinBound with max_distance left at its default, np.inf.
WithinBoundUnbounded(angular, X2, a, maxd2) == 1..Len(X2)

\* Points of X2 strictly closer than max_distance to point a; max_distance
\* is given in half units (maxd2 = 2 * max_distance), so that the halved
\* radius of the angular branch stays an integer.  cKDTree.query keeps a
\* neighbour only when d < distance_upper_bound.
WithinBound(angular, X2, a, maxd2) ==
    {j \in 1..Len(X2) : 4 * Dist2(angular, a, X2[j]) < maxd2 * maxd2}

NearestSet(angular, X2, a, maxd2) ==
    LET near == WithinBound(angular, X2, a, maxd2)
    IN {j \in near : \A k \in near :
           Dist2(angular, a, X2[j]) <= Dist2(angular, a, X2[k])}

\* What crossmatch(X1, X2, max_distance) may return for query point a:
\* (inf, len(X2)) when no point of X2 is within the bound, else the distance
\* and index of a nearest one; which of several equidistant points the tree
\* returns is not specified.
NeighbourOptions(angular, X2, a, maxd2) ==
    LET nearest == NearestSet(angular, X2, a, maxd2)
    IN IF nearest = {}
       THEN {[dist |-> Inf, ind |-> Len(X2) + 1]}
       ELSE {[dist |-> Dist2(angular, a, X2[j]), ind |-> j] : j \in nearest}

RECURSIVE Product(_)
\* The sequences that take their i-th element from the i-th set.
Product(sets) ==
    IF Len(sets) = 0 THEN {<<>>}
    ELSE {<<h>> \o t : h \in sets[1], t \in Product(Tail(sets))}

\* The results crossmatch can return: one option per row of X1, the same
\* answer for the same query point (the search is deterministic).
crossmatch(angular, X1, X2, maxd2) ==
    {f \in Product([i \in 1..Len(X1) |->
                      NeighbourOptions(angular, X2, X1[i], maxd2)] \o <<>>) :
        \A i, j \in 1..Len(X1) : X1[i] = X1[j] => f[i] = f[j]}

(* ------------------------------ _matching ------------------------------ *)

XY(cat) == [i \in 1..Len(cat.rows) |-> <<cat.rows[i].x, cat.rows[i].y>>]

RaDec(cat) == [i \in 1..Len(cat.rows) |-> <<cat.rows[i].RA, cat.rows[i].Dec>>]

\* utils.py:80-85: the column the identities are read from.
IdKey(masteridskey) == IF masteridskey = None THEN "masterindex" ELSE masteridskey

\* utils.py:80-82: with no key, master["masterindex"] = np.arange(len(master))
\* is written into the caller's master catalog.
MasterAfter(master, masteridskey) ==
    IF masteridskey = None
    THEN SetColumn(master, "masterindex", Arange(Len(master.rows)))
    ELSE master

\* utils.py:87-117: the two searches.  fwd is (dist, ind): for each master
\* row its nearest catalog row; bwd is (dist_, ind_): for each catalog row
\* its nearest master row.  The angular branch searches within radius2 / 2.
Searches(master, cat, angular, radius) ==
    IF angular
    THEN {[fwd |-> f, bwd |-> b] :
             f \in crossmatch(TRUE, RaDec(master), RaDec(cat), radius),
             b \in crossmatch(TRUE, RaDec(cat), RaDec(master), radius)}
    ELSE {[fwd |-> f, bwd |-> b] :
             f \in crossmatch(FALSE, XY(master), XY(cat), 2 * radius),
             b \in crossmatch(FALSE, XY(cat), XY(master), 2 * radius)}

\* MatchedId without the test ind_s == i of utils.py:125.
MatchedIdOneWay(master, idkey, s, i) ==
    IF s.bwd[i].dist # Inf
    THEN IF s.fwd[s.bwd[i].ind].dist # Inf
         THEN master.rows[s.bwd[i].ind][idkey]
         ELSE Unmatched
    ELSE Unmatched

\* utils.py:119-126: the identity of catalog row i.
MatchedId(master, idkey, s, i) ==
    IF s.bwd[i].dist # Inf
    THEN LET ind_o == s.bwd[i].ind
         IN IF s.fwd[ind_o].dist # Inf
            THEN IF s.fwd[ind_o].ind = i
                 THEN master.rows[ind_o][idkey]
                 ELSE Unmatched
            ELSE Unmatched
    ELSE Unmatched

MatchIDs(master, cat, idkey, s) ==
    [i \in 1..Len(cat.rows) |-> MatchedId(master, idkey, s, i)] \o <<>>

\* utils.py:129, mask = IDs > 0
MaskOf(IDs) == [i \in 1..Len(IDs) |-> IDs[i] > 0]

\* _matching(master, cat, masteridskey, angular, radius, masked) for one
\* outcome s of the two searches: the returned value, and the master catalog
\* as the call leaves it.  master[idkey] is read only when a row is matched
\* (utils.py:126), so a missing identity column raises only then.
MatchingCall(master, cat, masteridskey, angular, radius, masked, s) ==
    LET m2 == MasterAfter(master, masteridskey)
        idkey == IdKey(masteridskey)
        hit == \E i \in 1..Len(cat.rows) : MatchedId(m2, "x", s, i) # Unmatched
        IDs == MatchIDs(m2, cat, idkey, s)
    IN [master |-> m2,
        ret |-> IF hit /\ idkey \notin m2.cols
                THEN [status |-> "KeyError"]
                ELSE IF masked
                     THEN [status |-> "ok", IDs |-> IDs, mask |-> MaskOf(IDs)]
                     ELSE [status |-> "ok", IDs |-> IDs]]

(* ----------------------------- transparency --------------------------- *)

\* utils.py:167, radius=2.0 pixels, in tenths of a pixel.
TRadius == 20

\* utils.py:194, the constant added to every instrumental magnitude (20.0),
\* in tenths of a magnitude.
WeightZp == 200

\* np.nan
NaN == "nan"

\* A rational number; those of one vector share a denominator.
Rat(num, den) == [num |-> num, den |-> den]

RECURSIVE Log10(_)
\* log10 of a flux that is a power of ten.
Log10(f) == IF f <= 1 THEN 0 ELSE 1 + Log10(f \div 10)

\* utils.py:194,202: -2.5 * np.log10(flux) + 20.0, in tenths of a magnitude.
InstMag(flux) == WeightZp - 25 * Log10(flux)

RECURSIVE SumSeq(_)
SumSeq(s) == IF Len(s) = 0 THEN 0 ELSE s[1] + SumSeq(Tail(s))

\* The order of ndarray.sort(order="sourceid"): by sourceid, ties broken by
\* the other fields in the order of the dtype (x, y, flux here).
RowBefore(a, b) ==
    \/ a.sourceid < b.sourceid
    \/ a.sourceid = b.sourceid /\ a.x < b.x
    \/ a.sourceid = b.sourceid /\ a.x = b.x /\ a.y < b.y
    \/ a.sourceid = b.sourceid /\ a.x = b.x /\ a.y = b.y /\ a.flux < b.flux

RECURSIVE InsertRow(_, _)
InsertRow(sorted, r) ==
    IF Len(sorted) = 0 THEN <<r>>
    ELSE IF RowBefore(r, sorted[1]) THEN <<r>> \o sorted
    ELSE <<sorted[1]>> \o InsertRow(Tail(sorted), r)

RECURSIVE SortRows(_)
SortRows(rows) ==
    IF Len(rows) = 0 THEN <<>>
    ELSE InsertRow(SortRows(Tail(rows)), rows[1])

\* utils.py:178, newcat.sort(order="sourceid")
SortBySourceId(cat) == [rows |-> SortRows(cat.rows), cols |-> cat.cols]

\* utils.py:137-144: the number of frames, the reference image and the
\* comparison images; master = 0 stands for master=None.
NumFrames(images, master) == IF master = 0 THEN Len(images) ELSE Len(images) + 1
MasterImage(images, master) == IF master = 0 THEN images[1] ELSE master
ImgList(images, master) == IF master = 0 THEN Tail(images) ELSE images

\* utils.py:146-156: append_fields adds sourceid = 0..n-1 to a copy; when
\* the catalog already has a sourceid column it raises ValueError and the
\* catalog is used as it is.
WithSourceId(mastercat) ==
    IF "sourceid" \in mastercat.cols
    THEN mastercat
    ELSE SetColumn(mastercat, "sourceid", Arange(Len(mastercat.rows)))

\* utils.py:161-169: the identities _matching gives the rows of one frame.
FrameIds(mastercat, newcat, s) ==
    MatchingCall(mastercat, newcat, "sourceid", FALSE, TRadius, TRUE, s).ret.IDs

\* utils.py:170-178: the frame's catalog with its sourceid column set,
\* sorted by it.
NewCat(newcat, ids) == SortBySourceId(SetColumn(newcat, "sourceid", ids))

\* utils.py:158,175-177: a master row stays detected while its sourceid is
\* among the ids of every frame.
Detect(mastercat, idsOf) ==
    [i \in 1..Len(mastercat.rows) |->
        \A t \in 1..Len(idsOf) :
            \E c \in 1..Len(idsOf[t]) : idsOf[t][c] = mastercat.rows[i].sourceid]
    \o <<>>

\* utils.py:180-185: the detected column, appended or overwritten.
WithDetected(mastercat, detect) == SetColumn(mastercat, "detected", detect)

\* utils.py:188, q = sum(mastercat["detected"])
CountDetected(mastercat) ==
    Cardinality({i \in 1..Len(mastercat.rows) : mastercat.rows[i].detected})

\* utils.py:194,198: mastercat[mastercat["detected"]]
DetectedRows(mastercat) == SelectSeq(mastercat.rows, LAMBDA r : r.detected)

\* utils.py:201, cat[cat["sourceid"] == row["sourceid"]]
ImgRows(cat, row) == SelectSeq(cat.rows, LAMBDA r : r.sourceid = row.sourceid)

\* utils.py:193-203: whether filling m raises: a flux column is missing, or
\* imgrow is not exactly one row (m[q + j] = <array> needs one element).
FillRaises(mastercat, newcats) ==
    \/ "flux" \notin mastercat.cols
    \/ \E s \in 1..Len(DetectedRows(mastercat)), t \in 1..Len(newcats) :
          \/ "flux" \notin newcats[t].cols
          \/ Len(ImgRows(newcats[t], DetectedRows(mastercat)[s])) # 1

\* utils.py:191-203: the vector m.  Its first q entries are the master's
\* magnitudes; entry q + j is written with j counting the detected rows in
\* the outer loop and the frames in the inner one.
MagVector(mastercat, newcats, p, q) ==
    LET drows == DetectedRows(mastercat)
    IN [i \in 1..(p * q) |->
          IF i <= q
          THEN InstMag(drows[i].flux)
          ELSE LET j == i - q - 1
                   s == (j \div (p - 1)) + 1
                   t == (j % (p - 1)) + 1
               IN InstMag(ImgRows(newcats[t], drows[s])[1].flux)] \o <<>>

\* DesignMatrix with the unit column left out of every block row.
DesignMatrixNoZp(p, q) ==
    [r \in 1..(p * q) |->
        [c \in 1..q |-> IF c = ((r - 1) % q) + 1 THEN 1 ELSE 0]]

\* utils.py:206-214: H = bmat of p block rows [ones in column j | identity(q)].
DesignMatrix(p, q) ==
    [r \in 1..(p * q) |->
        [c \in 1..(p + q) |->
            IF c = ((r - 1) \div q) + 1 \/ c = p + ((r - 1) % q) + 1
            THEN 1 ELSE 0]]

\* A least-squares solution in another gauge: zero-points are the frame
\* means and the mean magnitudes sum to zero.
LsqrFrameMeanGauge(m, p, q) ==
    LET S == SumSeq(m)
        rowsum(f) == SumSeq([k \in 1..q |-> m[(f - 1) * q + k]])
        colsum(k) == SumSeq([f \in 1..p |-> m[(f - 1) * q + k]])
    IN [c \in 1..(p + q) |->
          IF c <= p
          THEN Rat(p * (p + q) * rowsum(c), 10 * p * q * (p + q))
          ELSE Rat((p + q) * (q * colsum(c - p) - S), 10 * p * q * (p + q))]

\* utils.py:216, sparse.linalg.lsqr(H, m)[0]: the least-squares solution of
\* minimum norm (lsqr starts from x = 0), which for this H is
\*   zp[f] = (rowsum_f * (p+q) - S) / (q * (p+q)),
\*   mm[k] = (colsum_k * (p+q) - S) / (p * (p+q)),
\* with rowsum_f the sum of block f of m, colsum_k the sum of the k-th entry
\* of every block and S the sum of m.  m is in tenths of a magnitude, the
\* solution in magnitudes.
Lsqr(m, p, q) ==
    LET S == SumSeq(m)
        rowsum(f) == SumSeq([k \in 1..q |-> m[(f - 1) * q + k]])
        colsum(k) == SumSeq([f \in 1..p |-> m[(f - 1) * q + k]])
    IN [c \in 1..(p + q) |->
          IF c <= p
          THEN Rat(p * (rowsum(c) * (p + q) - S), 10 * p * q * (p + q))
          ELSE Rat(q * (colsum(c - p) * (p + q) - S), 10 * p * q * (p + q))]

\* np.zeros(p) in place of np.ones(p)
Zeros(p) == [f \in 1..p |-> Rat(0, 1)]

\* np.ones(p)
Ones(p) == [f \in 1..p |-> Rat(1, 1)]

\* img.update_sources(newcat): the image's best_sources becomes newcat.
UpdateSources(cs, img, newcat) == [cs EXCEPT ![img] = newcat]

\* utils.py:188-223: what the call returns or raises once the frames are
\* matched, the catalogs of the images afterwards, and the system built.
\* cs holds the catalogs after the loop of utils.py:160-185.
SolveStep(cs, p, q, mi, imglist, mastercat, newcats) ==
    IF q # 0
    THEN IF FillRaises(mastercat, newcats)
         THEN [cats |-> cs,
               ret |-> [status |-> "ValueError"],
               sys |-> [built |-> FALSE, p |-> p, q |-> q,
                        matched |-> Len(imglist), updated |-> imglist]]
         ELSE [cats |-> UpdateSources(cs, mi, mastercat),
               ret |-> [status |-> "ok", solved |-> TRUE,
                        zps |-> SubSeq(Lsqr(MagVector(mastercat, newcats, p, q), p, q),
                                       1, p),
                        meanmags |-> SubSeq(Lsqr(MagVector(mastercat, newcats, p, q), p, q),
                                            p + 1, p + q)],
               sys |-> [built |-> TRUE, p |-> p, q |-> q,
                        H |-> DesignMatrix(p, q),
                        m |-> MagVector(mastercat, newcats, p, q),
                        matched |-> Len(imglist), updated |-> imglist \o <<mi>>]]
    ELSE [cats |-> cs,
          ret |-> [status |-> "ok", solved |-> FALSE,
                   zps |-> Ones(p), meanmags |-> NaN],
          sys |-> [built |-> FALSE, p |-> p, q |-> q,
                   matched |-> Len(imglist), updated |-> imglist]]

\* utils.py:160-188: every frame's catalog is replaced by its matched and
\* sorted copy (update_sources), the detected column is set, and q counted.
\* utils.py:185 writes the column into the master's own catalog when that
\* already has both a sourceid and a detected column.
DetectStep(cs, p, mi, imglist, mastercat, newcats) ==
    SolveStep(
        IF {"sourceid", "detected"} \subseteq cs[mi].cols
        THEN [i \in DOMAIN cs |->
                 IF i = mi THEN mastercat
                 ELSE IF \E t \in 1..Len(imglist) : imglist[t] = i
                      THEN newcats[CHOOSE t \in 1..Len(imglist) : imglist[t] = i]
                      ELSE cs[i]]
        ELSE [i \in DOMAIN cs |->
                 IF \E t \in 1..Len(imglist) : imglist[t] = i
                 THEN newcats[CHOOSE t \in 1..Len(imglist) : imglist[t] = i]
                 ELSE cs[i]],
        p, CountDetected(mastercat), mi, imglist, mastercat, newcats)

\* utils.py:160-185 for the ids of all frames.
MatchStep(cs, p, mi, imglist, mastercat, idsOf) ==
    DetectStep(cs, p, mi, imglist,
               WithDetected(mastercat, Detect(mastercat, idsOf)),
               [t \in 1..Len(imglist) |-> NewCat(cs[imglist[t]], idsOf[t])] \o <<>>)

\* transparency(images, master) for one outcome ss of the frames' searches.
TransparencyCall(cs, images, master, ss) ==
    MatchStep(cs, NumFrames(images, master), MasterImage(images, master),
              ImgList(images, master),
              WithSourceId(cs[MasterImage(images, master)]),
              [t \in 1..Len(ImgList(images, master)) |->
                  FrameIds(WithSourceId(cs[MasterImage(images, master)]),
                           cs[ImgList(images, master)[t]], ss[t])] \o <<>>)

\* The outcomes of the searches of all frames.
FrameSearches(cs, images, master) ==
    Product([t \in 1..Len(ImgList(images, master)) |->
                Searches(WithSourceId(cs[MasterImage(images, master)]),
                         cs[ImgList(images, master)[t]], FALSE, TRadius)] \o <<>>)

(* --------------------- calls of transparency --------------------------- *)

\* Images of one session.
NImg == 3

\* Sources per image catalog.
TMaxSrc == 2

\* Detections (x, y, flux): two stars 40 pixels apart, the second at two
\* fluxes, and a detection 0.22 pixel off the first.
TSrcs == {<<100, 100, 1>>, <<102, 101, 1>>, <<500, 500, 1>>, <<500, 500, 100>>}

\* Catalogs of freshly analysed images: distinct positions, a flux column,
\* no sourceid and no detected column yet.
TCatalogs ==
    {Catalog([i \in 1..Len(ds) |-> Row(ds[i][1], ds[i][2], ds[i][1], ds[i][3], 0)],
             {"flux"}) :
        ds \in {d \in SeqsUpTo(TSrcs, TMaxSrc) :
                  \A i, j \in 1..Len(d) :
                     (d[i][1] = d[j][1] /\ d[i][2] = d[j][2]) => i = j}}

\* Catalogs that lack the flux column.
MalformedCatalogs ==
    {Catalog([i \in 1..Len(c.rows) |-> [c.rows[i] EXCEPT !.flux = 0]], {}) :
        c \in TCatalogs}

NoCall == [op |-> "none"]

\* No chunk_it call is running.
NoLocals == [avg |-> "none"]

Init ==
    /\ cats \in [1..NImg -> TCatalogs]
    /\ pc = "idle"
    /\ args = NoCall
    /\ entry = cats
    /\ ret = [status |-> "none"]
    /\ nn = <<>>
    /\ sys = [built |-> FALSE]
    /\ ncalls = 0
    /\ loc = NoLocals

\* transparency(images, master), images a list of distinct images and
\* master (when passed) an image that is not in the list.
Transparency(images, master) ==
    /\ ncalls < MaxCalls
    /\ \E ss \in FrameSearches(cats, images, master) :
         \E r \in {TransparencyCall(cats, images, master, ss)} :
            /\ cats' = r.cats
            /\ ret' = r.ret
            /\ sys' = r.sys
            /\ nn' = ss
            /\ entry' = cats
            /\ args' = [op |-> "transparency", images |-> images, master |-> master]
            /\ pc' = "transparency"
            /\ ncalls' = ncalls + 1
            /\ UNCHANGED loc

\* n consecutive images starting at image first, in cyclic order.
Run(first, n, N) == [i \in 1..n |-> ((first + i - 2) % N) + 1]

\* Calls with the first image as the reference (n consecutive images), and
\* calls that pass image first as a separate master with all the others.
Next ==
    \E first \in DOMAIN cats :
        \/ \E n \in 1..Len(cats) : Transparency(Run(first, n, Len(cats)), 0)
        \/ Transparency(Run(first + 1, Len(cats) - 1, Len(cats)), first)

Spec == Init /\ [][Next]_vars

\* Sessions of two images whose catalogs may lack the flux column.
InitV ==
    /\ cats \in [1..2 -> TCatalogs \cup MalformedCatalogs]
    /\ pc = "idle"
    /\ args = NoCall
    /\ entry = cats
    /\ ret = [status |-> "none"]
    /\ nn = <<>>
    /\ sys = [built |-> FALSE]
    /\ ncalls = 0
    /\ loc = NoLocals

SpecV == InitV /\ [][Next]_vars

(* ------------------ solves of transparency's system ------------------- *)

\* Frames and qualifying sources of a solved system.
MaxP == 3
MaxQ == 2

\* Instrumental magnitudes (tenths) of fluxes 100, 10 and 1.
MagVals == {InstMag(100), InstMag(10), InstMag(1)}

\* Constants added to every entry of m (tenths of a magnitude).
Shifts == {-25, 10}

\* The state at utils.py:206: p, q and a filled vector m.
InitS ==
    /\ cats = <<>>
    /\ pc = "idle"
    /\ args = NoCall
    /\ entry = cats
    /\ ret = [status |-> "none"]
    /\ nn = <<>>
    /\ sys \in {[built |-> TRUE, p |-> pq[1], q |-> pq[2],
                  H |-> DesignMatrix(pq[1], pq[2]), m |-> m] :
                    <<pq, m>> \in {x \in ((1..MaxP) \X (1..MaxQ))
                                         \X SeqsUpTo(MagVals, MaxP * MaxQ) :
                                      Len(x[2]) = x[1][1] * x[1][2]}}
    /\ ncalls = 0
    /\ loc = NoLocals

\* m with k added to every entry.
Shifted(m, k) == [i \in 1..Len(m) |-> m[i] + k]

\* utils.py:216-221 on m and on m shifted by k.
Solve(k) ==
    /\ pc = "idle"
    /\ \E x \in {Lsqr(sys.m, sys.p, sys.q)},
          y \in {Lsqr(Shifted(sys.m, k), sys.p, sys.q)} :
            ret' = [status |-> "ok", solved |-> TRUE,
                    zps |-> SubSeq(x, 1, sys.p),
                    meanmags |-> SubSeq(x, sys.p + 1, sys.p + sys.q),
                    kzps |-> SubSeq(y, 1, sys.p),
                    kmeanmags |-> SubSeq(y, sys.p + 1, sys.p + sys.q)]
    /\ args' = [op |-> "lsqr", k |-> k]
    /\ pc' = "lsqr"
    /\ UNCHANGED <<cats, entry, nn, sys, ncalls, loc>>

NextS == \E k \in Shifts : Solve(k)

SpecS == InitS /\ [][NextS]_vars

(* ------------------- direct calls of _matching ------------------------- *)

\* Pixel positions (tenths of a pixel): the two reference sources and the
\* comparison source of the documented scenario, and a point 1.0 pixel from
\* the first.
MPts == {<<100, 100>>, <<102, 101>>, <<100, 110>>, <<500, 500>>}

\* Radii passed to _matching (tenths of a pixel, or arcseconds).
Radii == {3, 10, 15}

\* Identities a catalog's sourceid column draws from, unique per catalog.
MIdVals == 0..(MaxSrc - 1)

\* Catalogs handed to _matching: up to MaxSrc sources, RA numerically equal
\* to x, unique identities in the sourceid column.
MCatalogs ==
    {Catalog([i \in 1..Len(ps) |-> Row(ps[i][1], ps[i][2], ps[i][1], 1, ids[i])],
             {"flux", "sourceid"}) :
        <<ps, ids>> \in {pi \in SeqsUpTo(MPts, MaxSrc) \X SeqsUpTo(MIdVals, MaxSrc) :
                           Len(pi[1]) = Len(pi[2]) /\ IsInjective(pi[2])}}

InitM ==
    /\ cats \in [1..2 -> MCatalogs]
    /\ pc = "idle"
    /\ args = NoCall
    /\ entry = cats
    /\ ret = [status |-> "none"]
    /\ nn = <<>>
    /\ sys = [built |-> FALSE]
    /\ ncalls = 0
    /\ loc = NoLocals

\* _matching(cats[mi], cats[ci], ...); mi = ci passes the same catalog
\* object twice.
Matching(mi, ci, masteridskey, angular, radius, masked) ==
    /\ pc = "idle"
    /\ \E s \in Searches(cats[mi], cats[ci], angular, radius) :
         \E r \in {MatchingCall(cats[mi], cats[ci], masteridskey, angular,
                                 radius, masked, s)} :
            /\ cats' = [cats EXCEPT ![mi] = r.master]
            /\ ret' = r.ret
            /\ nn' = s
            /\ entry' = cats
            /\ args' = [op |-> "_matching", master |-> mi, cat |-> ci,
                        masteridskey |-> masteridskey, angular |-> angular,
                        radius |-> radius, masked |-> masked]
            /\ pc' = "_matching"
            /\ UNCHANGED <<sys, ncalls, loc>>

NextM ==
    \E ci \in DOMAIN cats, masteridskey \in {None, "sourceid"},
       angular \in BOOLEAN, radius \in Radii, masked \in BOOLEAN :
        Matching(1, ci, masteridskey, angular, radius, masked)

SpecM == InitM /\ [][NextM]_vars

(* ---------------- properties of a direct _matching call ---------------- *)

MatchingDone == pc = "_matching" /\ ret.status = "ok"

\* The reference and the comparison catalog as they were passed.
RefCat == entry[args.master]
CmpCat == entry[args.cat]

\* The positions the call compares, and their squared distance.
RefPts == IF args.angular THEN RaDec(RefCat) ELSE XY(RefCat)
CmpPts == IF args.angular THEN RaDec(CmpCat) ELSE XY(CmpCat)

D2(r, c) ==
    IF args.angular
    THEN (RefPts[r][1] - CmpPts[c][1]) * (RefPts[r][1] - CmpPts[c][1])
    ELSE (RefPts[r][1] - CmpPts[c][1]) * (RefPts[r][1] - CmpPts[c][1])
         + (RefPts[r][2] - CmpPts[c][2]) * (RefPts[r][2] - CmpPts[c][2])

Refs == 1..Len(RefCat.rows)
Cmps == 1..Len(CmpCat.rows)

\* The identity of reference row r: its position in the catalog when no
\* key is passed, else its value in the key column.
RefId(r) ==
    IF args.masteridskey = None THEN r - 1 ELSE RefCat.rows[r][args.masteridskey]

NearestRefOf(r, c) == \A r2 \in Refs : D2(r, c) <= D2(r2, c)
NearestCmpOf(r, c) == \A c2 \in Cmps : D2(r, c) <= D2(r, c2)
OnlyNearestRefOf(r, c) == \A r2 \in Refs \ {r} : D2(r, c) < D2(r2, c)
OnlyNearestCmpOf(r, c) == \A c2 \in Cmps \ {c} : D2(r, c) < D2(r, c2)

\* C1: every comparison source given a reference identity is the nearest
\* comparison neighbour of the reference source it names, and that
\* reference source is its nearest reference neighbour.
C1_MutualConsistency ==
    MatchingDone =>
        \A c \in Cmps :
            ret.IDs[c] # Unmatched =>
                \E r \in Refs : /\ RefId(r) = ret.IDs[c]
                                 /\ NearestRefOf(r, c)
                                 /\ NearestCmpOf(r, c)

\* A match accepted while another comparison source, also within the
\* radius of the same reference source, is left unmatched.
C1_Witness ==
    /\ MatchingDone
    /\ Len(RefCat.rows) = 2 /\ Len(CmpCat.rows) = 2
    /\ \E c \in Cmps, c2 \in Cmps, r \in Refs :
           /\ ret.IDs[c] = RefId(r)
           /\ ret.IDs[c2] = Unmatched
           /\ 0 < D2(r, c) /\ D2(r, c) < D2(r, c2)
           /\ D2(r, c2) < args.radius * args.radius
           /\ ~args.angular

\* C2 (as claimed): with radius the largest distance allowed, a comparison
\* source is mapped to reference source r whenever each is the other's
\* nearest neighbour and their distance is <= radius, in pixel and in
\* angular mode; every other comparison source is unmatched.
C2_AcceptWithinRadius ==
    MatchingDone =>
        \A c \in Cmps :
            /\ \A r \in Refs :
                   ( /\ OnlyNearestRefOf(r, c)
                     /\ OnlyNearestCmpOf(r, c)
                     /\ D2(r, c) <= args.radius * args.radius )
                   => ret.IDs[c] = RefId(r)
            /\ ret.IDs[c] # Unmatched =>
                   \E r \in Refs : /\ RefId(r) = ret.IDs[c]
                                    /\ NearestRefOf(r, c) /\ NearestCmpOf(r, c)
                                    /\ D2(r, c) <= args.radius * args.radius

\* C3: when no reference source lies within radius of any comparison
\* source, every comparison source gets the unmatched sentinel.
C3_DisjointUnmatched ==
    ( /\ MatchingDone
      /\ \A r \in Refs, c \in Cmps : D2(r, c) > args.radius * args.radius )
    => \A c \in Cmps : ret.IDs[c] = Unmatched

\* Two non-empty catalogs, disjoint with respect to the radius, matched.
C3_Witness ==
    /\ MatchingDone
    /\ Len(RefCat.rows) = 2 /\ Len(CmpCat.rows) = 2
    /\ \A r \in Refs, c \in Cmps : D2(r, c) > args.radius * args.radius
    /\ \E r \in Refs, c \in Cmps : D2(r, c) < 16 * args.radius * args.radius
    /\ \A c \in Cmps : ret.IDs[c] = Unmatched

SelfMatch == MatchingDone /\ args.master = args.cat /\ args.radius > 0

\* C4 (as claimed): a catalog matched against itself maps every source to
\* its own identity, whatever the order of its rows.
C4_SelfIdentityAny ==
    SelfMatch => \A c \in Cmps : ret.IDs[c] = RefId(c)

\* C4 (amended): a catalog whose sources have pairwise distinct positions,
\* matched against itself, maps every source to its own identity, whatever
\* the order of its rows (every ordering of every such catalog is an
\* initial state).
C4_SelfIdentity ==
    (SelfMatch /\ IsInjective(CmpPts)) => \A c \in Cmps : ret.IDs[c] = RefId(c)

\* A self-match of two distinct sources listed against the order of their
\* identities.
C4_Witness ==
    /\ SelfMatch /\ IsInjective(CmpPts)
    /\ Len(CmpCat.rows) = 2
    /\ args.masteridskey = "sourceid"
    /\ ret.IDs = <<1, 0>>
    /\ D2(1, 2) < args.radius * args.radius

\* C5 (as claimed): the call leaves both catalogs as they were passed.
C5_ReadOnly ==
    pc = "_matching" => cats = entry

(* ------------------ properties of a transparency call ------------------ *)

TDone == pc = "transparency"

TSolved == TDone /\ ret.status = "ok" /\ ret.solved

\* The reference image and the comparison images of the call, and the
\* number of frames as the claim counts them.
TRef == IF args.master = 0 THEN args.images[1] ELSE args.master
TFrames == IF args.master = 0 THEN Tail(args.images) ELSE args.images
TP == IF args.master = 0 THEN Len(args.images) ELSE Len(args.images) + 1

\* The identity of reference row i during the call: its sourceid when the
\* catalog came with one, else its position.
TRefId(i) ==
    IF "sourceid" \in entry[TRef].cols THEN entry[TRef].rows[i].sourceid ELSE i - 1

\* The rows of frame t (1..p-1) whose sourceid column holds the identity of
\* reference row i after the call: the rows that the tests of utils.py:176
\* and utils.py:201 find.
SelectedRows(t, i) ==
    {c \in 1..Len(cats[TFrames[t]].rows) :
        cats[TFrames[t]].rows[c].sourceid = TRefId(i)}

\* Reference row i is counted by the call: every frame has a row holding
\* its identity.
Kept(i) == \A t \in 1..Len(TFrames) : SelectedRows(t, i) # {}

KeptRows == {i \in 1..Len(entry[TRef].rows) : Kept(i)}

\* The rows of frame t (as the frame's catalog was passed) that the match
\* mapping of the frame sends to reference row i: the two searches of
\* _matching found each other within the radius.
MappedTo(t, i) ==
    {c \in 1..Len(entry[TFrames[t]].rows) :
        /\ nn[t].bwd[c].dist # Inf
        /\ nn[t].bwd[c].ind = i
        /\ nn[t].fwd[i].dist # Inf
        /\ nn[t].fwd[i].ind = c}

\* Reference row i is matched in every comparison frame.
Qualifies(i) == \A t \in 1..Len(TFrames) : MappedTo(t, i) # {}

Qualifying == {i \in 1..Len(entry[TRef].rows) : Qualifies(i)}

\* C6 (as claimed): a reference source is marked detected, and gets an
\* unknown of the system, exactly when it is matched in every comparison
\* frame; q is the number of such sources.
C6_QualifyingFilter ==
    TDone =>
        /\ sys.q = Cardinality(Qualifying)
        /\ TSolved =>
              /\ \A i \in 1..Len(cats[TRef].rows) :
                    cats[TRef].rows[i].detected <=> Qualifies(i)
              /\ Len(ret.meanmags) = Cardinality(Qualifying)
              /\ \A r \in 1..Len(sys.H) : Len(sys.H[r]) = TP + Cardinality(Qualifying)

\* The flux of counted source k (k-th reference row the call counts) in frame
\* f (0 the reference frame), as a set: one element when exactly one row of
\* the frame carries the source.
KeptRow(k) ==
    CHOOSE i \in KeptRows : Cardinality({j \in KeptRows : j < i}) = k - 1

FluxIn(f, k) ==
    IF f = 0
    THEN {entry[TRef].rows[KeptRow(k)].flux}
    ELSE {cats[TFrames[f]].rows[c].flux : c \in SelectedRows(f, KeptRow(k))}

\* C7 (as claimed): for every frame f and qualifying source k there is
\* exactly one row of H with ones on zero_point[f] and mean_magnitude[k]
\* only, and m holds at that row the instrumental magnitude of k in f.
C7_RowObservation ==
    (TSolved /\ sys.built) =>
        \A f \in 0..(TP - 1), k \in 1..sys.q :
            LET rows == {r \in 1..Len(sys.H) :
                            \A c \in 1..Len(sys.H[r]) :
                               sys.H[r][c] = IF c = f + 1 \/ c = TP + k THEN 1 ELSE 0}
            IN /\ Cardinality(rows) = 1
               /\ \A r \in rows : \E fl \in FluxIn(f, k) :
                     sys.m[r] = 200 - 25 * Log10(fl)

\* C8: the system has p*q rows and p+q unknowns, the returned zero-points
\* are p and the returned mean magnitudes q, with p = len(images) when the
\* first image is the reference and len(images)+1 when a master is passed.
C8_Dimensions ==
    (TDone /\ ret.status = "ok") =>
        /\ sys.p = TP
        /\ Len(ret.zps) = TP
        /\ ret.solved =>
              /\ sys.built
              /\ Len(sys.H) = TP * Cardinality(KeptRows)
              /\ Len(sys.m) = TP * Cardinality(KeptRows)
              /\ \A r \in 1..Len(sys.H) :
                    Len(sys.H[r]) = TP + Cardinality(KeptRows)
              /\ Len(ret.meanmags) = Cardinality(KeptRows)

\* A solve with a separate master: 3 frames, 2 qualifying sources.
C8_Witness ==
    /\ TSolved /\ args.master # 0 /\ Len(args.images) = 2
    /\ Cardinality(KeptRows) = 2
    /\ Len(sys.H) = 6 /\ Len(ret.zps) = 3 /\ Len(ret.meanmags) = 2

\* C9: when no reference source is matched in all frames the call raises
\* nothing, builds no system and returns ones for the p frames and NaN.
C9_Degenerate ==
    (TDone /\ KeptRows = {}) =>
        /\ ret.status = "ok"
        /\ ~ret.solved
        /\ ~sys.built
        /\ ret.zps = [f \in 1..TP |-> [num |-> 1, den |-> 1]]
        /\ ret.meanmags = NaN

\* Three frames whose reference sources are each found in one comparison
\* frame but none in both.
C9_Witness ==
    /\ TDone /\ TP = 3 /\ KeptRows = {}
    /\ Len(entry[TRef].rows) = 2
    /\ SelectedRows(1, 1) # {} /\ SelectedRows(2, 1) = {}
    /\ SelectedRows(1, 2) = {} /\ SelectedRows(2, 2) # {}
    /\ ret.zps = <<[num |-> 1, den |-> 1], [num |-> 1, den |-> 1], [num |-> 1, den |-> 1]>>

\* Some catalog passed to the call lacks the flux column.
MalformedInput ==
    \/ "flux" \notin entry[TRef].cols
    \/ \E t \in 1..Len(TFrames) : "flux" \notin entry[TFrames[t]].cols

\* C10 (as claimed): with a malformed input catalog the call fails with a
\* validation error before any frame is matched or updated and before the
\* system is built: every image's catalog is as it was on entry.
C10_ValidationFirst ==
    (TDone /\ MalformedInput) =>
        /\ ret.status # "ok"
        /\ sys.matched = 0
        /\ sys.updated = <<>>
        /\ ~sys.built
        /\ cats = entry

(* ------------------------ properties of the solve ---------------------- *)

\* x - y = n / d, for rationals x and y.
RatDiffIs(x, y, n, d) == d * (x.num * y.den - y.num * x.den) = n * x.den * y.den

\* C11 (as claimed): adding k to every entry of m changes every zero-point
\* by exactly k and no mean magnitude.
C11_ShiftZeroPoints ==
    pc = "lsqr" =>
        /\ \A f \in 1..sys.p : RatDiffIs(ret.kzps[f], ret.zps[f], args.k, 10)
        /\ \A s \in 1..sys.q : RatDiffIs(ret.kmeanmags[s], ret.meanmags[s], 0, 10)

\* C11 (amended): adding k to every entry of m changes every zero-point by
\* k*q/(p+q) and every mean magnitude by k*p/(p+q).
C11_ShiftSplit ==
    pc = "lsqr" =>
        /\ \A f \in 1..sys.p :
              RatDiffIs(ret.kzps[f], ret.zps[f], args.k * sys.q, 10 * (sys.p + sys.q))
        /\ \A s \in 1..sys.q :
              RatDiffIs(ret.kmeanmags[s], ret.meanmags[s],
                        args.k * sys.p, 10 * (sys.p + sys.q))

\* Three frames and two sources with unequal magnitudes, shifted by one
\* magnitude: the zero-points move by 0.4 and the mean magnitudes by 0.6.
C11_Witness ==
    /\ pc = "lsqr" /\ sys.p = 3 /\ sys.q = 2 /\ args.k = 10
    /\ sys.m[1] # sys.m[2]
    /\ RatDiffIs(ret.kzps[1], ret.zps[1], 4, 10)
    /\ RatDiffIs(ret.kmeanmags[1], ret.meanmags[1], 6, 10)

\* x + y = n / d, for rationals x and y.
RatSumIs(x, y, n, d) == d * (x.num * y.den + y.num * x.den) = n * x.den * y.den

\* The three frames of the call carried the same catalog on entry.
IdenticalFrames ==
    /\ TP = 3
    /\ \A t \in 1..Len(TFrames) : entry[TFrames[t]] = entry[TRef]

\* C12 (as claimed): with three frames carrying the same catalog the
\* zero-points of the three frames are equal, and every source's mean
\* magnitude plus the zero-point is the source's instrumental magnitude.
C12_IdenticalFrames ==
    (TSolved /\ IdenticalFrames) =>
        /\ \A f, g \in 1..TP : RatDiffIs(ret.zps[f], ret.zps[g], 0, 1)
        /\ \A k \in 1..sys.q :
              RatSumIs(ret.meanmags[k], ret.zps[1],
                       200 - 25 * Log10(entry[TRef].rows[KeptRow(k)].flux), 10)

(* ------------------------------ chunk_it ------------------------------- *)
(* avg and last are IEEE-754 doubles.  With n = len(seq) and N = |num|,    *)
(* every double the loop computes is                                       *)
(*     (k * n * 2^FracBits + E) / (N * 2^FracBits)                         *)
(* in magnitude: k additions of the exact quotient n/N plus an accumulated *)
(* rounding error E.  It is kept as the pair [k, E] and rounded to 53      *)
(* significant bits, ties to even, after the division and every addition;  *)
(* all have the sign of num.                                               *)

\* Length of seq, and the range of num.
MaxLen == 8
MaxNum == 9
MaxNegNum == 2
MinNum == -MaxNegNum

\* Loop iterations recorded in one call: more than any call with a
\* positive num makes (at most num + 1).  Only a call with a negative num
\* goes on after them; last is then below -len(seq), every further slice
\* is empty, and the further iterations are counted modulo 2.
MaxIter == MaxNum + 2

\* Elements of seq.
Elems == {1, 2}

\* Fraction bits of the fixed-point unit, and of a double's significand.
FracBits == 60
MantBits == 52

\* Largest binary exponent of a value the loop computes.
MaxExp == 10

Pow2(t) == 2 ^ t

RECURSIVE Pow2Mod(_, _)
\* 2^e modulo M, four bits at a time
Pow2Mod(e, M) == IF e < 4 THEN Pow2(e) % M ELSE (16 * Pow2Mod(e - 4, M)) % M

Zero == [k |-> 0, E |-> 0]

\* x >= 2^t
AtLeastPow2(n, N, x, t) ==
    LET D == IF t >= 0 THEN x.k * n - Pow2(t) * N ELSE x.k * n * Pow2(-t) - N
    IN D > 0 \/ (D = 0 /\ x.E >= 0)

\* The binary exponent of x > 0.
Exponent(n, N, x) ==
    CHOOSE t \in (MantBits - FracBits)..MaxExp :
        /\ AtLeastPow2(n, N, x, t)
        /\ t = MaxExp \/ ~AtLeastPow2(n, N, x, t + 1)

\* The double nearest to the exact value x, ties to even.
RoundToDouble(n, N, x) ==
    IF x.k * n = 0 /\ x.E = 0
    THEN x
    ELSE LET M == N * Pow2(FracBits + Exponent(n, N, x) - MantBits)
             R2 == (x.k * n * Pow2Mod(FracBits, 2 * M) + x.E) % (2 * M)
             R == R2 % M
         IN IF 2 * R > M \/ (2 * R = M /\ R2 >= M)
            THEN [k |-> x.k, E |-> x.E - R + M]
            ELSE [k |-> x.k, E |-> x.E - R]

\* utils.py:401: len(seq) / float(num)
FloatDiv(n, N) == RoundToDouble(n, N, [k |-> 1, E |-> 0])

\* utils.py:405-406: last + avg
FloatAdd(n, N, x, y) == RoundToDouble(n, N, [k |-> x.k + y.k, E |-> x.E + y.E])

\* utils.py:404: last < len(seq), for last of sign sg
LessThanLen(n, N, sg, x) ==
    IF sg < 0
    THEN n > 0
    ELSE x.k * n < n * N \/ (x.k * n = n * N /\ x.E < 0)

\* int(x) for x of sign sg: truncation toward zero.
ToInt(n, N, sg, x) ==
    IF (x.k * n) % N = 0 /\ x.E < 0
    THEN sg * (((x.k * n) \div N) - 1)
    ELSE sg * ((x.k * n) \div N)

\* A slice index as Python resolves it: negative counts from the end,
\* clipped to 0..n.
SliceIndex(n, i) ==
    IF i < 0 THEN (IF i + n < 0 THEN 0 ELSE i + n) ELSE (IF i > n THEN n ELSE i)

\* The cut with the stop taken as int(last) + int(avg).
CutTruncAvg(n, N, sg, last, avg) ==
    <<SliceIndex(n, ToInt(n, N, sg, last)),
      SliceIndex(n, ToInt(n, N, sg, last) + ToInt(n, N, sg, avg))>>

\* utils.py:405: the bounds of seq[int(last) : int(last + avg)]
Cut(n, N, sg, last, avg) ==
    <<SliceIndex(n, ToInt(n, N, sg, last)),
      SliceIndex(n, ToInt(n, N, sg, FloatAdd(n, N, last, avg)))>>

\* seq[lo:hi] for resolved bounds.
Slice(seq, cut) == IF cut[1] < cut[2] THEN SubSeq(seq, cut[1] + 1, cut[2]) ELSE <<>>

\* List comparison a > b: the first differing element decides, then length.
ListGreater(a, b) ==
    \E i \in 1..Len(a) :
        /\ \A j \in 1..(i - 1) : j <= Len(b) /\ a[j] = b[j]
        /\ i > Len(b) \/ (i <= Len(b) /\ a[i] > b[i])

\* The chunks that sorted(out, reverse=True) puts before chunk i: the
\* greater ones, and the equal ones that come earlier in out.
ChunksBefore(out, i) ==
    {j \in 1..Len(out) :
        ListGreater(out[j], out[i]) \/ (out[j] = out[i] /\ j < i)}

\* utils.py:408: sorted(out, reverse=True)
SortedReverse(out) ==
    [r \in 1..Len(out) |->
        out[CHOOSE i \in 1..Len(out) : Cardinality(ChunksBefore(out, i)) = r - 1]]
    \o <<>>

Abs1(num) == IF num < 0 THEN -num ELSE num
Sign(num) == IF num < 0 THEN -1 ELSE 1

\* A call chunk_it(seq, num) about to run.  orderable tells whether the
\* elements of seq can be compared; comparing chunks raises TypeError when
\* they cannot.
InitC ==
    /\ cats = <<>>
    /\ pc = "called"
    /\ args \in {[op |-> "chunk_it", seq |-> seq, num |-> num, orderable |-> o] :
                    seq \in SeqsUpTo(Elems, MaxLen), num \in MinNum..MaxNum,
                    o \in BOOLEAN}
    /\ entry = cats
    /\ ret = [status |-> "none"]
    /\ nn = <<>>
    /\ sys = [built |-> FALSE]
    /\ ncalls = 0
    /\ loc = NoLocals

\* utils.py:401-403; the division raises ZeroDivisionError for num = 0.
Enter ==
    /\ pc = "called"
    /\ IF args.num = 0
       THEN /\ ret' = [status |-> "ZeroDivisionError"]
            /\ pc' = "raised"
            /\ UNCHANGED loc
       ELSE /\ loc' = [avg |-> FloatDiv(Len(args.seq), Abs1(args.num)),
                       last |-> Zero, out |-> <<>>, cuts |-> <<>>, extra |-> 0]
            /\ pc' = "loop"
            /\ UNCHANGED ret
    /\ UNCHANGED <<cats, args, entry, nn, sys, ncalls>>

\* utils.py:404-406: one iteration of the while loop.
Iterate ==
    /\ pc = "loop"
    /\ LessThanLen(Len(args.seq), Abs1(args.num), Sign(args.num), loc.last)
    /\ IF Len(loc.out) < MaxIter
       THEN \E cut \in {Cut(Len(args.seq), Abs1(args.num), Sign(args.num),
                             loc.last, loc.avg)} :
               loc' = [loc EXCEPT
                         !.out = Append(@, Slice(args.seq, cut)),
                         !.cuts = Append(@, cut),
                         !.last = FloatAdd(Len(args.seq), Abs1(args.num), @,
                                           loc.avg)]
       ELSE loc' = [loc EXCEPT !.extra = 1 - @]
    /\ UNCHANGED <<cats, pc, args, entry, ret, nn, sys, ncalls>>

\* utils.py:404, 407-412: the loop ends and the chunks are returned, sorted
\* in reverse.  When the elements cannot be compared the sort raises as soon
\* as it compares two chunks that differ in an element, and out is returned
\* as it is; which chunks it compares is the sort's own matter.
Return ==
    /\ pc = "loop"
    /\ ~LessThanLen(Len(args.seq), Abs1(args.num), Sign(args.num), loc.last)
    /\ \E o \in (IF args.orderable THEN {} ELSE {loc.out})
                  \cup {SortedReverse(loc.out)} :
          ret' = [status |-> "ok", out |-> o]
    /\ pc' = "returned"
    /\ UNCHANGED <<cats, args, entry, nn, sys, ncalls, loc>>

NextC == Enter \/ Iterate \/ Return

SpecC == InitC /\ [][NextC]_vars

\* Calls on sequences of equal elements: the loop reads only len(seq).
InitT == InitC /\ \A i \in 1..Len(args.seq) : args.seq[i] = 1

\* The interpreter keeps running the call.
FairSpecC == InitT /\ [][NextC]_vars /\ WF_vars(NextC)

(* ----------------------- properties of chunk_it ------------------------ *)

Returned == pc = "returned"

\* 1 <= num <= len(seq)
NumInRange == 1 <= args.num /\ args.num <= Len(args.seq)

RECURSIVE Flatten(_)
Flatten(chunks) ==
    IF Len(chunks) = 0 THEN <<>> ELSE chunks[1] \o Flatten(Tail(chunks))

Count(s, v) == Cardinality({i \in 1..Len(s) : s[i] = v})

\* The chunks (by the order they were cut in) that hold position i of seq.
ChunksHolding(i) ==
    {c \in 1..Len(loc.cuts) : loc.cuts[c][1] < i /\ i <= loc.cuts[c][2]}

\* C13: for 1 <= num <= len(seq) the chunks partition seq: every position
\* of seq is in exactly one chunk, and the returned chunks flattened hold
\* the elements of seq with their multiplicities.
C13_Partition ==
    (Returned /\ NumInRange) =>
        /\ \A i \in 1..Len(args.seq) : Cardinality(ChunksHolding(i)) = 1
        /\ Len(Flatten(ret.out)) = Len(args.seq)
        /\ \A v \in Elems : Count(Flatten(ret.out), v) = Count(args.seq, v)

\* Eight elements in six parts: the rounding of 8/6 leaves a seventh chunk,
\* and the returned list is reordered by the sort.
C13_Witness ==
    /\ Returned /\ Len(args.seq) = 8 /\ args.num = 6
    /\ Len(ret.out) = 7
    /\ ret.out # loc.out
    /\ Count(args.seq, 1) = 3

\* c is seq[i:j] for some i <= j.
IsSliceOfSeq(c) ==
    \E i \in 0..Len(args.seq) : \E j \in i..Len(args.seq) :
        c = SubSeq(args.seq, i + 1, j)

\* C14 (as claimed): for 1 <= num <= len(seq) exactly num chunks are
\* returned, each a contiguous slice of seq, with lengths that differ by at
\* most 1.
C14_Shape ==
    (Returned /\ NumInRange) =>
        /\ Len(ret.out) = args.num
        /\ \A c \in 1..Len(ret.out) : IsSliceOfSeq(ret.out[c])
        /\ \A c, d \in 1..Len(ret.out) : Len(ret.out[c]) - Len(ret.out[d]) <= 1

\* C17 (as claimed): every call of chunk_it returns or raises.
C17_Terminates == <>(pc \in {"returned", "raised"})

(* --------------------- properties of the mapping ----------------------- *)

\* The reference identities of the call are pairwise different.
RefIdsUnique ==
    \A i, j \in 1..Len(entry[TRef].rows) : TRefId(i) = TRefId(j) => i = j

\* C15 (as claimed): when the reference identities are unique, no two
\* sources of a comparison frame are mapped to the same reference identity,
\* and every reference source the call counts selects exactly one row of
\* every frame when m is filled.
C15_InjectiveMapping ==
    (TDone /\ RefIdsUnique) =>
        /\ \A t \in 1..Len(TFrames) :
              \A c, d \in 1..Len(cats[TFrames[t]].rows) :
                 (/\ cats[TFrames[t]].rows[c].sourceid # Unmatched
                  /\ cats[TFrames[t]].rows[c].sourceid
                       = cats[TFrames[t]].rows[d].sourceid) => c = d
        /\ \A i \in KeptRows : \A t \in 1..Len(TFrames) :
              Cardinality(SelectedRows(t, i)) = 1

\* C16 (as claimed): the mask is True for exactly the comparison sources
\* whose ID is not the unmatched value, whatever identity they matched.
C16_MaskIsMatched ==
    (MatchingDone /\ args.masked) =>
        \A c \in Cmps : ret.mask[c] <=> (ret.IDs[c] # Unmatched)

====
